---- MODULE Spec2Model ----
(***************************************************************************)
(* ESP32 WiFi bridge (src/firmware/esp32-wifi/src/main.cpp).               *)
(*                                                                         *)
(* The firmware's loop() reads the serial link one byte at a time,         *)
(* accumulates a line in serialBuffer, hands every non-empty line to       *)
(* processCommand, then polls the single TCP client for inbound data.      *)
(*                                                                         *)
(* Text is modelled as a sequence of one-character strings.  A line        *)
(* written to Serial is the sequence of the tokens printed on it: a string *)
(* literal of the source is one token, a String value is spliced in        *)
(* character by character, an int is rendered in decimal.                  *)
(***************************************************************************)
EXTENDS Integers, Sequences, FiniteSets, TLC

VARIABLES
    rx,            \* bytes waiting in the Serial receive FIFO
    serialBuffer,  \* String serialBuffer
    pc,            \* position of loop(): "read", "delay", "wifiwait", "wififinal"
    attempts,      \* int attempts of connectToWiFi
    curLine,       \* tokens printed on the serial line not yet ended by println
    resp,          \* lines printed by the command being handled / last handled
    tickData,      \* lines printed by the TCP poll of the current loop() pass
    wifiStatus,    \* WiFi.status()
    wifiReq,       \* <<ssid, password>> of the last WiFi.begin, <<>> if none
    tcpConnected,  \* tcpClient.connected()
    tcpPeer,       \* <<host, port>> of the socket tcpClient holds, <<>> if none
    tcpIn,         \* packets buffered for tcpClient, oldest first
    tcpSent,       \* texts handed to tcpClient.print on the current socket
    scanResult,    \* the networks the last WiFi.scanNetworks() found, in its order
    lastCmd,       \* the trimmed text of the last line given to processCommand
    provider,      \* what the provider answered to the call of that command
    writes,        \* number of writes the host has made to the link
    trace,         \* whether the two histories below are being recorded
    fed,           \* history: every byte Serial.read() has returned
    dispatched,    \* history: every String passed to processCommand
    log            \* history: every command handled, with its response lines and
                   \* whether a TCP session was established when it was handled

vars == <<rx, serialBuffer, pc, attempts, curLine, resp, tickData, wifiStatus,
          wifiReq, tcpConnected, tcpPeer, tcpIn, tcpSent, scanResult, lastCmd,
          provider, writes, trace, fed, dispatched, log>>

wifiVars == <<wifiStatus, wifiReq, scanResult>>
tcpVars == <<tcpConnected, tcpPeer, tcpIn, tcpSent>>
histVars == <<trace, fed, dispatched, log>>
cmdVars == <<lastCmd, provider>>

----------------------------------------------------------------------------
(* Bounds of the model *)

\* command lines the host writes (Spec)
MaxWrites == 2
\* command lines the host writes (SpecTcp)
MaxTcpWrites == 3
\* command lines the host writes (FairSpec)
MaxFairWrites == 2
\* single bytes the host writes (SpecBytes)
MaxBytes == 6
\* command lines the host writes (SpecCmd)
MaxCmdWrites == 2
\* command lines the host writes (SpecArgs)
MaxArgWrites == 3
\* command lines the host writes (SpecMix)
MaxMixWrites == 3
\* packets the TCP peer may have buffered at the bridge at one time
MaxPackets == 2
\* the cap on the line buffer that the specification asks for
LineCap == 3

----------------------------------------------------------------------------
(* Program constants *)

\* while (WiFi.status() != WL_CONNECTED && attempts < 20)
MaxAttempts == 20
\* cmd.indexOf(':', 8), cmd.substring(8, ...): length of "CONNECT:" / "TCPSEND:"
VerbLen8 == 8
\* colonPos > 11, cmd.substring(11, colonPos): length of "TCPCONNECT:"
VerbLen11 == 11
\* WiFi.scanNetworks() reporting that the scan failed
WIFI_SCAN_FAILED == -2
\* the number of values of the uint16_t port of tcpClient.connect
PortModulus == 65536

----------------------------------------------------------------------------
(* Text *)

P_CONNECT == <<"C", "O", "N", "N", "E", "C", "T", ":">>
P_TCPCONNECT == <<"T", "C", "P", "C", "O", "N", "N", "E", "C", "T", ":">>
P_TCPSEND == <<"T", "C", "P", "S", "E", "N", "D", ":">>
W_STATUS == <<"S", "T", "A", "T", "U", "S">>
W_SCAN == <<"S", "C", "A", "N">>
W_DISCONNECT == <<"D", "I", "S", "C", "O", "N", "N", "E", "C", "T">>
W_TCPCLOSE == <<"T", "C", "P", "C", "L", "O", "S", "E">>
W_IP == <<"I", "P">>

DigitChars == <<"0", "1", "2", "3", "4", "5", "6", "7", "8", "9">>

IsDigit(c) == \E i \in 1..10 : DigitChars[i] = c
DigitVal(c) == (CHOOSE i \in 1..10 : DigitChars[i] = c) - 1

\* isspace() of the characters that can be in a line
IsSpace(c) == c \in {" ", "\t"}

\* a test for the line feed alone
IsTerminator_LfOnly(c) == c = "\n"

\* c == '\n' || c == '\r'
IsTerminator(c) == c = "\n" \/ c = "\r"

RECURSIVE TrimLeft(_)
TrimLeft(s) == IF s # <<>> /\ IsSpace(Head(s)) THEN TrimLeft(Tail(s)) ELSE s

RECURSIVE TrimRight(_)
TrimRight(s) ==
    IF s # <<>> /\ IsSpace(s[Len(s)]) THEN TrimRight(SubSeq(s, 1, Len(s) - 1)) ELSE s

\* String::trim()
Trim(s) == TrimRight(TrimLeft(s))

\* String::startsWith(prefix)
StartsWith(s, p) == Len(s) >= Len(p) /\ SubSeq(s, 1, Len(p)) = p

\* the index of the last ch of the string
IndexOfFrom_Last(s, ch, from) ==
    LET hits == {i \in from..(Len(s) - 1) : s[i + 1] = ch}
    IN  IF hits = {} THEN -1 ELSE CHOOSE i \in hits : \A j \in hits : i >= j

\* String::indexOf(ch, fromIndex), 0-based, -1 when absent
IndexOfFrom(s, ch, from) ==
    LET hits == {i \in from..(Len(s) - 1) : s[i + 1] = ch}
    IN  IF hits = {} THEN -1 ELSE CHOOSE i \in hits : \A j \in hits : i <= j

\* the index of the first ch after the verb TCPCONNECT:
LastIndexOf_First(s, ch) ==
    LET hits == {i \in VerbLen11..(Len(s) - 1) : s[i + 1] = ch}
    IN  IF hits = {} THEN -1 ELSE CHOOSE i \in hits : \A j \in hits : i <= j

\* String::lastIndexOf(ch), 0-based, -1 when absent
LastIndexOf(s, ch) ==
    LET hits == {i \in 0..(Len(s) - 1) : s[i + 1] = ch}
    IN  IF hits = {} THEN -1 ELSE CHOOSE i \in hits : \A j \in hits : i >= j

\* String::substring(left, right): the characters left..right-1, 0-based
Substring(s, left, right) ==
    LET l == IF left > right THEN right ELSE left
        r0 == IF left > right THEN left ELSE right
        r == IF r0 > Len(s) THEN Len(s) ELSE r0
    IN  IF l >= Len(s) THEN <<>> ELSE SubSeq(s, l + 1, r)

\* String::substring(left)
SubstringFrom(s, left) == Substring(s, left, Len(s))

RECURSIVE DigitsValue(_, _)
DigitsValue(s, acc) ==
    IF s # <<>> /\ IsDigit(Head(s))
    THEN DigitsValue(Tail(s), 10 * acc + DigitVal(Head(s)))
    ELSE acc

\* String::toInt() (atol): leading blanks, an optional sign, the leading digits
ToInt(s) ==
    LET t == TrimLeft(s)
    IN  IF t = <<>> THEN 0
        ELSE IF Head(t) = "-" THEN 0 - DigitsValue(Tail(t), 0)
        ELSE IF Head(t) = "+" THEN DigitsValue(Tail(t), 0)
        ELSE DigitsValue(t, 0)

RECURSIVE NatToChars(_)
NatToChars(n) ==
    IF n < 10 THEN <<DigitChars[n + 1]>>
    ELSE NatToChars(n \div 10) \o <<DigitChars[(n % 10) + 1]>>

\* Print::print(int): the decimal rendering
IntToChars(n) == IF n < 0 THEN <<"-">> \o NatToChars(0 - n) ELSE NatToChars(n)

----------------------------------------------------------------------------
(* What the host and the network can do *)

LnConnect == <<"C", "O", "N", "N", "E", "C", "T", ":", "s", ":", "p">>
LnConnectBad == <<"C", "O", "N", "N", "E", "C", "T", ":", "s">>
LnTcpConnectH == <<"T", "C", "P", "C", "O", "N", "N", "E", "C", "T", ":", "h", ":", "1">>
LnTcpConnectG == <<"T", "C", "P", "C", "O", "N", "N", "E", "C", "T", ":", "g", ":", "2">>
LnTcpSend == <<"T", "C", "P", "S", "E", "N", "D", ":", "d">>
LnFoo == <<"F", "O", "O">>

LnConnectColons == <<"C", "O", "N", "N", "E", "C", "T", ":", "s", ":", "p", ":", "q">>
LnConnectNoSsid == <<"C", "O", "N", "N", "E", "C", "T", ":", ":", "p">>
LnConnectWord == <<"C", "O", "N", "N", "E", "C", "T">>
LnFooPadded == <<" ", "F", "O", "O", ":", "b", " ">>
LnStatusLower == <<"s", "t", "a", "t", "u", "s">>
LnStatusArg == <<"S", "T", "A", "T", "U", "S", ":", "1">>
LnIpPadded == <<" ", "I", "P", " ">>

LnTcpConnectInner ==
    <<"T", "C", "P", "C", "O", "N", "N", "E", "C", "T", ":", "a", ":", "b", ":", "8", "0">>
LnTcpConnectNoPort == <<"T", "C", "P", "C", "O", "N", "N", "E", "C", "T", ":", "h">>
LnTcpConnectNoHost == <<"T", "C", "P", "C", "O", "N", "N", "E", "C", "T", ":", ":", "8", "0">>
LnTcpConnectNeg == <<"T", "C", "P", "C", "O", "N", "N", "E", "C", "T", ":", "h", ":", "-", "5">>
LnTcpConnectMixed == <<"T", "C", "P", "C", "O", "N", "N", "E", "C", "T", ":", "h", ":", "8", "x">>
LnTcpConnectWord == <<"T", "C", "P", "C", "O", "N", "N", "E", "C", "T", ":", "h", ":", "x">>
LnTcpSendColons == <<"T", "C", "P", "S", "E", "N", "D", ":", "a", ":", "b", " ", "c">>
LnTcpSendPadded == <<" ", "T", "C", "P", "S", "E", "N", "D", ":", " ", "d", " ">>

\* the command lines the host writes in Spec
SessionLines ==
    {LnConnect, LnConnectBad, W_STATUS, W_SCAN, W_DISCONNECT, LnTcpConnectH,
     LnTcpConnectG, LnTcpSend, W_TCPCLOSE, W_IP, LnFoo}

\* the command lines the host writes in SpecTcp
TcpLines == {LnTcpConnectH, LnTcpConnectG, LnTcpSend, W_TCPCLOSE}

\* the command lines the host writes in FairSpec: all but TCPCONNECT, so that
\* no TCP session is ever open there
FairLines == SessionLines \ {LnTcpConnectH, LnTcpConnectG}

\* the command lines the host writes in SpecCmd: the forms of CONNECT, lines
\* that are no command, and commands that set up an association or a session
CmdLines ==
    {LnConnect, LnConnectColons, LnConnectBad, LnConnectNoSsid, LnConnectWord,
     LnFooPadded, LnStatusLower, LnStatusArg, LnIpPadded, LnTcpConnectH}

\* the line ends the host writes in SpecCmd
LineEnds == {"\n", "\r"}

\* the command lines the host writes in SpecArgs: the forms of the arguments
\* of TCPCONNECT and of TCPSEND
ArgLines ==
    {LnTcpConnectInner, LnTcpConnectNoPort, LnTcpConnectNoHost, LnTcpConnectNeg,
     LnTcpConnectMixed, LnTcpConnectWord, LnTcpSendColons, LnTcpSendPadded}

\* the command lines the host writes in SpecMix: a command that polls and one
\* that opens a TCP session and returns at once
MixLines == {LnConnect, LnTcpConnectH}

\* the bytes the host writes in SpecBytes
Alphabet == {"\n", "\r", "a", " "}

\* the packets a TCP peer sends
Packets == {<<"x">>, <<"y", "z">>}

NetA == [ssid |-> <<"a">>, rssi |-> -40, enc |-> "WIFI_AUTH_OPEN"]
NetB == [ssid |-> <<"b">>, rssi |-> -70, enc |-> "WIFI_AUTH_WPA2_PSK"]
\* a network whose encryption type is none of the named ones
NetC == [ssid |-> <<"c">>, rssi |-> -55, enc |-> "WIFI_AUTH_MAX"]

\* what WiFi.scanNetworks() can leave behind: the networks found, in its order
ScanLists == {<<>>, <<NetA>>, <<NetC>>, <<NetB, NetA>>}

RECURSIVE Flatten(_)
Flatten(ps) == IF ps = <<>> THEN <<>> ELSE Head(ps) \o Flatten(Tail(ps))

\* tcpClient.available(): the number of buffered bytes
TcpAvailable == Len(Flatten(tcpIn))

\* WiFi.SSID()
CurrentSsid == IF wifiReq = <<>> THEN <<>> ELSE wifiReq[1].ssid

\* WiFi.localIP().toString()
LocalIp == <<"<ip>">>

----------------------------------------------------------------------------
(* processCommand and the functions it calls *)

\* the entry of the history for a command answered with lines
Logged(cmd, lines) ==
    IF trace THEN Append(log, [cmd |-> cmd, resp |-> lines, est |-> tcpConnected])
             ELSE log

\* the command has returned and serialBuffer is left as it was
Done_KeepBuffer(lines, call) ==
    /\ resp' = lines
    /\ provider' = call
    /\ log' = Logged(lastCmd', lines)
    /\ UNCHANGED <<serialBuffer, pc, attempts, curLine>>

\* the command has printed lines, the provider having answered call, and
\* processCommand has returned to loop(): serialBuffer = ""
Done(lines, call) ==
    /\ resp' = lines
    /\ provider' = call
    /\ log' = Logged(lastCmd', lines)
    /\ serialBuffer' = <<>>
    /\ UNCHANGED <<pc, attempts, curLine>>

\* connectToWiFi up to the polling loop
connectToWiFi(ssid, password) ==
    /\ resp' = << <<"CONNECTING:">> \o ssid >>
    /\ wifiReq' = << [ssid |-> ssid, password |-> password] >>
    /\ attempts' = 0
    /\ curLine' = <<>>
    /\ pc' = "wifiwait"
    /\ provider' = "begin"
    /\ UNCHANGED <<serialBuffer, wifiStatus, scanResult, tcpVars, log>>

getStatus ==
    /\ IF wifiStatus = "WL_CONNECTED"
       THEN Done(<< <<"STATUS:CONNECTED">>,
                    <<"SSID:">> \o CurrentSsid,
                    <<"IP:">> \o LocalIp,
                    <<"RSSI:", "<rssi>", " dBm">> >>, "none")
       ELSE Done(<< <<"STATUS:DISCONNECTED">> >>, "none")
    /\ UNCHANGED <<wifiVars, tcpVars>>

\* the line of a network, SECURED for the one named type WPA2 only
NetworkLine_NamedOnly(net) ==
    <<"NETWORK:">> \o net.ssid \o <<":">> \o IntToChars(net.rssi) \o <<":">>
        \o <<IF net.enc = "WIFI_AUTH_WPA2_PSK" THEN "SECURED" ELSE "OPEN">>

\* the line of network i of a scan
NetworkLine(net) ==
    <<"NETWORK:">> \o net.ssid \o <<":">> \o IntToChars(net.rssi) \o <<":">>
        \o <<IF net.enc = "WIFI_AUTH_OPEN" THEN "OPEN" ELSE "SECURED">>

\* the lines scanNetworks prints after "SCANNING..." when WiFi.scanNetworks()
\* returned n and left the networks nets
ScanReport(n, nets) ==
    IF n = 0
    THEN << <<"SCAN:No networks found">> >>
    ELSE << <<"SCAN:Found ">> \o IntToChars(n) \o <<" networks">> >>
             \o [i \in 1..(IF n < 0 THEN 0 ELSE n) |-> NetworkLine(nets[i])]

scanNetworks ==
    /\ \E failed \in BOOLEAN, nets \in ScanLists :
          LET n == IF failed THEN WIFI_SCAN_FAILED ELSE Len(nets)
          IN  /\ scanResult' = IF failed THEN <<>> ELSE nets
              /\ Done(<< <<"SCANNING...">> >> \o ScanReport(n, scanResult'),
                      IF failed THEN "scan failed" ELSE "scan done")
    /\ UNCHANGED <<wifiStatus, wifiReq, tcpVars>>

Disconnect ==
    /\ wifiStatus' = "WL_DISCONNECTED"
    /\ wifiReq' = <<>>
    /\ Done(<< <<"OK:Disconnected">> >>, "none")
    /\ UNCHANGED <<scanResult, tcpVars>>

\* the int port converted to the uint16_t parameter of tcpClient.connect
Uint16(port) == port % PortModulus

\* tcpClient.connect(host, port) returning ok; a failed connect may or may not
\* have let go of the socket the client held (keep)
TcpClientConnect(host, port, ok, keep) ==
    IF ok
    THEN /\ tcpConnected' = TRUE
         /\ tcpPeer' = << [host |-> host, port |-> Uint16(port)] >>
         /\ tcpIn' = <<>>
         /\ tcpSent' = <<>>
    ELSE IF keep
    THEN UNCHANGED tcpVars
    ELSE /\ tcpConnected' = FALSE
         /\ tcpPeer' = <<>>
         /\ tcpIn' = <<>>
         /\ tcpSent' = <<>>

connectTCP(host, port) ==
    /\ \E ok \in BOOLEAN, keep \in BOOLEAN :
          /\ TcpClientConnect(host, port, ok, keep)
          /\ Done(<< <<"TCP:Connecting to ">> \o host \o <<":">> \o IntToChars(port),
                     IF ok THEN <<"OK:TCP connected">>
                           ELSE <<"ERROR:TCP connection failed">> >>,
                  IF ok THEN "tcp connected" ELSE "tcp failed")
    /\ UNCHANGED wifiVars

\* sendTCP without the test of tcpClient.connected()
sendTCP_NoCheck(data) ==
    /\ tcpSent' = Append(tcpSent, data)
    /\ Done(<< <<"OK:Data sent">> >>, "tcp printed")
    /\ UNCHANGED <<tcpConnected, tcpPeer, tcpIn, wifiVars>>

\* sendTCP handing over the payload without the blanks around it
sendTCP_Trimmed(data) ==
    /\ IF tcpConnected
       THEN /\ tcpSent' = Append(tcpSent, Trim(data))
            /\ Done(<< <<"OK:Data sent">> >>, "tcp printed")
            /\ UNCHANGED <<tcpConnected, tcpPeer, tcpIn>>
       ELSE /\ Done(<< <<"ERROR:Not connected">> >>, "none")
            /\ UNCHANGED tcpVars
    /\ UNCHANGED wifiVars

sendTCP(data) ==
    /\ IF tcpConnected
       THEN /\ tcpSent' = Append(tcpSent, data)
            /\ Done(<< <<"OK:Data sent">> >>, "tcp printed")
            /\ UNCHANGED <<tcpConnected, tcpPeer, tcpIn>>
       ELSE /\ Done(<< <<"ERROR:Not connected">> >>, "none")
            /\ UNCHANGED tcpVars
    /\ UNCHANGED wifiVars

\* tcpClient.stop()
TcpClientStop ==
    /\ tcpConnected' = FALSE
    /\ tcpPeer' = <<>>
    /\ tcpIn' = <<>>
    /\ tcpSent' = <<>>

\* TCPCLOSE without the test of tcpClient.connected()
TcpClose_NoCheck ==
    /\ TcpClientStop
    /\ Done(<< <<"OK:TCP connection closed">> >>, "tcp stopped")
    /\ UNCHANGED wifiVars

TcpClose ==
    /\ IF tcpConnected
       THEN /\ TcpClientStop
            /\ Done(<< <<"OK:TCP connection closed">> >>, "tcp stopped")
       ELSE /\ Done(<< <<"ERROR:No active TCP connection">> >>, "none")
            /\ UNCHANGED tcpVars
    /\ UNCHANGED wifiVars

GetIp ==
    /\ IF wifiStatus = "WL_CONNECTED"
       THEN Done(<< <<"IP:">> \o LocalIp >>, "none")
       ELSE Done(<< <<"ERROR:Not connected to WiFi">> >>, "none")
    /\ UNCHANGED <<wifiVars, tcpVars>>

\* an unknown command dropped without a word
UnknownCommand_Silent(cmd) ==
    /\ Done(<<>>, "none")
    /\ UNCHANGED <<wifiVars, tcpVars>>

\* the unknown command answered without its text
UnknownCommand_NoEcho(cmd) ==
    /\ Done(<< <<"ERROR:Unknown command: ">> >>, "none")
    /\ UNCHANGED <<wifiVars, tcpVars>>

\* the final else of processCommand
UnknownCommand(cmd) ==
    /\ Done(<< <<"ERROR:Unknown command: ">> \o cmd >>, "none")
    /\ UNCHANGED <<wifiVars, tcpVars>>

processCommand(raw) ==
    LET cmd == Trim(raw)
    IN  /\ lastCmd' = cmd
        /\ IF StartsWith(cmd, P_CONNECT)
           THEN LET firstColon == IndexOfFrom(cmd, ":", VerbLen8)
                IN  IF firstColon > 0
                    THEN connectToWiFi(Substring(cmd, VerbLen8, firstColon),
                                       SubstringFrom(cmd, firstColon + 1))
                    ELSE /\ Done(<< <<"ERROR:Invalid CONNECT format. Use CONNECT:SSID:PASSWORD">> >>,
                                 "none")
                         /\ UNCHANGED <<wifiVars, tcpVars>>
           ELSE IF cmd = W_STATUS THEN getStatus
           ELSE IF cmd = W_SCAN THEN scanNetworks
           ELSE IF cmd = W_DISCONNECT THEN Disconnect
           ELSE IF StartsWith(cmd, P_TCPCONNECT)
           THEN LET colonPos == LastIndexOf(cmd, ":")
                IN  IF colonPos > VerbLen11
                    THEN connectTCP(Substring(cmd, VerbLen11, colonPos),
                                    ToInt(SubstringFrom(cmd, colonPos + 1)))
                    ELSE /\ Done(<< <<"ERROR:Invalid TCPCONNECT format">> >>, "none")
                         /\ UNCHANGED <<wifiVars, tcpVars>>
           ELSE IF StartsWith(cmd, P_TCPSEND) THEN sendTCP(SubstringFrom(cmd, VerbLen8))
           ELSE IF cmd = W_TCPCLOSE THEN TcpClose
           ELSE IF cmd = W_IP THEN GetIp
           ELSE UnknownCommand(cmd)

----------------------------------------------------------------------------
(* loop() *)

\* one pass of while (Serial.available()): a byte is read and handled
ReadByte ==
    /\ pc = "read"
    /\ rx # <<>>
    /\ LET c == Head(rx)
       IN  /\ rx' = Tail(rx)
           /\ fed' = IF trace THEN Append(fed, c) ELSE fed
           /\ IF IsTerminator(c)
              THEN IF Len(serialBuffer) > 0
                   THEN /\ processCommand(serialBuffer)
                        /\ dispatched' = IF trace THEN Append(dispatched, serialBuffer)
                                                  ELSE dispatched
                   ELSE UNCHANGED <<serialBuffer, pc, attempts, curLine, resp,
                                    wifiVars, tcpVars, cmdVars, dispatched, log>>
              ELSE /\ serialBuffer' = Append(serialBuffer, c)
                   /\ UNCHANGED <<pc, attempts, curLine, resp, wifiVars, tcpVars,
                                  cmdVars, dispatched, log>>
    /\ UNCHANGED <<tickData, writes, trace>>

\* the poll without the test of tcpClient.connected()
PollGuard_NoSession == TcpAvailable > 0

\* tcpClient.connected() && tcpClient.available()
PollGuard == tcpConnected /\ TcpAvailable > 0

\* the poll printing the oldest packet only
PollLines_FirstPacket(packets) == << <<"TCPDATA:">> \o Head(packets) >>

\* the lines the poll prints for the buffered packets
PollLines(packets) == << <<"TCPDATA:">> \o Flatten(packets) >>

\* the TCP client polled also between two polls of a CONNECT
PollTcp_AnyTime ==
    /\ pc \in {"read", "wifiwait"}
    /\ pc = "read" => rx = <<>>
    /\ IF PollGuard
       THEN /\ tickData' = tickData \o PollLines(tcpIn)
            /\ tcpIn' = <<>>
       ELSE UNCHANGED <<tickData, tcpIn>>
    /\ pc' = IF pc = "read" THEN "delay" ELSE pc
    /\ UNCHANGED <<rx, serialBuffer, attempts, curLine, resp, wifiVars,
                   tcpConnected, tcpPeer, tcpSent, cmdVars, writes, histVars>>

\* Serial.available() is 0: the while loop ends and the TCP client is polled
PollTcp ==
    /\ pc = "read"
    /\ rx = <<>>
    /\ IF PollGuard
       THEN /\ tickData' = tickData \o PollLines(tcpIn)
            /\ tcpIn' = <<>>
       ELSE UNCHANGED <<tickData, tcpIn>>
    /\ pc' = "delay"
    /\ UNCHANGED <<rx, serialBuffer, attempts, curLine, resp, wifiVars,
                   tcpConnected, tcpPeer, tcpSent, cmdVars, writes, histVars>>

\* delay(10); loop() returns and is called again
Delay ==
    /\ pc = "delay"
    /\ pc' = "read"
    /\ tickData' = <<>>
    /\ UNCHANGED <<rx, serialBuffer, attempts, curLine, resp, wifiVars, tcpVars,
                   cmdVars, writes, histVars>>

\* the polling loop going on while attempts <= 20
WaitCond_OneMore == wifiStatus # "WL_CONNECTED" /\ attempts <= MaxAttempts

\* WiFi.status() != WL_CONNECTED && attempts < 20
WaitCond == wifiStatus # "WL_CONNECTED" /\ attempts < MaxAttempts

\* one evaluation of the while condition of connectToWiFi, with the body or
\* the Serial.println() after the loop
WifiPoll ==
    /\ pc = "wifiwait"
    /\ IF WaitCond
       THEN /\ curLine' = Append(curLine, ".")
            /\ attempts' = attempts + 1
            /\ UNCHANGED <<pc, resp>>
       ELSE /\ resp' = Append(resp, curLine)
            /\ curLine' = <<>>
            /\ pc' = "wififinal"
            /\ UNCHANGED attempts
    /\ UNCHANGED <<rx, serialBuffer, tickData, wifiVars, tcpVars, cmdVars, writes,
                   histVars>>

\* the lines connectToWiFi ends with
ConnectOutcome ==
    IF wifiStatus = "WL_CONNECTED"
    THEN << <<"OK:Connected">>, <<"IP:">> \o LocalIp >>
    ELSE << <<"ERROR:Connection failed">> >>

\* if (WiFi.status() == WL_CONNECTED) ... of connectToWiFi, and the return to
\* loop(), which clears serialBuffer
WifiFinal ==
    /\ pc = "wififinal"
    /\ resp' = resp \o ConnectOutcome
    /\ log' = Logged(lastCmd, resp')
    /\ serialBuffer' = <<>>
    /\ pc' = "read"
    /\ UNCHANGED <<rx, attempts, curLine, tickData, wifiVars, tcpVars, cmdVars,
                   writes, trace, fed, dispatched>>

----------------------------------------------------------------------------
(* The host and the network *)

\* the host writes one of the lines, and a line feed
HostSend(lines, max) ==
    /\ writes < max
    /\ \E l \in lines : rx' = rx \o l \o <<"\n">>
    /\ writes' = writes + 1
    /\ UNCHANGED <<serialBuffer, pc, attempts, curLine, resp, tickData, wifiVars,
                   tcpVars, cmdVars, histVars>>

HostSendLine == HostSend(SessionLines, MaxWrites)

HostSendTcpLine == HostSend(TcpLines, MaxTcpWrites)

HostSendFairLine == HostSend(FairLines, MaxFairWrites)

HostSendArgLine == HostSend(ArgLines, MaxArgWrites)

HostSendMixLine == HostSend(MixLines, MaxMixWrites)

\* the host writes one of the lines of SpecCmd, ended by LF or by CR
HostSendCmdLine ==
    /\ writes < MaxCmdWrites
    /\ \E l \in CmdLines, e \in LineEnds : rx' = rx \o l \o <<e>>
    /\ writes' = writes + 1
    /\ UNCHANGED <<serialBuffer, pc, attempts, curLine, resp, tickData, wifiVars,
                   tcpVars, cmdVars, histVars>>

\* the host writes one byte
HostSendByte ==
    /\ writes < MaxBytes
    /\ \E c \in Alphabet : rx' = Append(rx, c)
    /\ writes' = writes + 1
    /\ UNCHANGED <<serialBuffer, pc, attempts, curLine, resp, tickData, wifiVars,
                   tcpVars, cmdVars, histVars>>

\* the association requested by WiFi.begin is reached
WifiUp ==
    /\ wifiReq # <<>>
    /\ wifiStatus # "WL_CONNECTED"
    /\ wifiStatus' = "WL_CONNECTED"
    /\ UNCHANGED <<rx, serialBuffer, pc, attempts, curLine, resp, tickData, wifiReq,
                   scanResult, tcpVars, cmdVars, writes, histVars>>

\* the association is lost
WifiDown ==
    /\ wifiStatus = "WL_CONNECTED"
    /\ wifiStatus' = "WL_DISCONNECTED"
    /\ UNCHANGED <<rx, serialBuffer, pc, attempts, curLine, resp, tickData, wifiReq,
                   scanResult, tcpVars, cmdVars, writes, histVars>>

\* a packet of the peer arrives
NetRecv ==
    /\ tcpConnected
    /\ Len(tcpIn) < MaxPackets
    /\ \E p \in Packets : tcpIn' = Append(tcpIn, p)
    /\ UNCHANGED <<rx, serialBuffer, pc, attempts, curLine, resp, tickData, wifiVars,
                   tcpConnected, tcpPeer, tcpSent, cmdVars, writes, histVars>>

\* the peer closes the connection, or it breaks
PeerClose ==
    /\ tcpConnected
    /\ tcpConnected' = FALSE
    /\ UNCHANGED <<rx, serialBuffer, pc, attempts, curLine, resp, tickData, wifiVars,
                   tcpPeer, tcpIn, tcpSent, cmdVars, writes, histVars>>

----------------------------------------------------------------------------
(* Specifications *)

\* the state after setup()
Boot ==
    /\ rx = <<>>
    /\ serialBuffer = <<>>
    /\ pc = "read"
    /\ attempts = 0
    /\ curLine = <<>>
    /\ resp = <<>>
    /\ tickData = <<>>
    /\ wifiStatus = "WL_DISCONNECTED"
    /\ wifiReq = <<>>
    /\ tcpConnected = FALSE
    /\ tcpPeer = <<>>
    /\ tcpIn = <<>>
    /\ tcpSent = <<>>
    /\ scanResult = <<>>
    /\ lastCmd = <<>>
    /\ provider = "none"
    /\ writes = 0
    /\ fed = <<>>
    /\ dispatched = <<>>
    /\ log = <<>>

\* the histories are not recorded
Init == Boot /\ trace = FALSE

\* the histories are recorded
InitTraced == Boot /\ trace = TRUE

Next ==
    \/ HostSendLine
    \/ ReadByte
    \/ PollTcp
    \/ Delay
    \/ WifiPoll
    \/ WifiFinal
    \/ WifiUp
    \/ WifiDown
    \/ NetRecv
    \/ PeerClose

NextBytes ==
    \/ HostSendByte
    \/ ReadByte
    \/ PollTcp
    \/ Delay

NextTcp ==
    \/ HostSendTcpLine
    \/ ReadByte
    \/ PollTcp
    \/ Delay
    \/ NetRecv
    \/ PeerClose

NextCmd ==
    \/ HostSendCmdLine
    \/ ReadByte
    \/ PollTcp
    \/ Delay
    \/ WifiPoll
    \/ WifiFinal
    \/ WifiUp

NextArgs ==
    \/ HostSendArgLine
    \/ ReadByte
    \/ PollTcp
    \/ Delay

NextMix ==
    \/ HostSendMixLine
    \/ ReadByte
    \/ PollTcp
    \/ Delay
    \/ WifiPoll
    \/ WifiFinal
    \/ WifiUp
    \/ NetRecv

\* the host writes whole command lines
Spec == Init /\ [][Next]_vars

\* the host writes the commands of the TCP session only, and the histories
\* are recorded
SpecTcp == InitTraced /\ [][NextTcp]_vars

\* the host writes arbitrary bytes, and the bytes read and the lines
\* dispatched are recorded
SpecBytes == InitTraced /\ [][NextBytes]_vars

\* the host writes lines in the forms the parser tells apart, and the
\* histories are recorded
SpecCmd == InitTraced /\ [][NextCmd]_vars

\* the host writes TCPCONNECT and TCPSEND lines with arguments of several
\* forms, and the histories are recorded
SpecArgs == InitTraced /\ [][NextArgs]_vars

\* the host writes commands while a CONNECT may be polling and packets of a
\* TCP peer may be waiting, and the histories are recorded
SpecMix == InitTraced /\ [][NextMix]_vars

\* a step of the firmware
LoopStep == ReadByte \/ PollTcp \/ Delay \/ WifiPoll \/ WifiFinal

\* the firmware keeps running: loop() is called again and again, and a
\* command being handled goes on
Running == WF_vars(LoopStep)

NextFair ==
    \/ HostSendFairLine
    \/ ReadByte
    \/ PollTcp
    \/ Delay
    \/ WifiPoll
    \/ WifiFinal
    \/ WifiUp
    \/ WifiDown

\* the firmware keeps running while the host writes a few command lines
FairSpec == Init /\ [][NextFair]_vars /\ Running

----------------------------------------------------------------------------
(* Vocabulary of the claims *)

\* a carriage return or a line feed
IsLineEnd(c) == c \in {"\n", "\r"}

\* the positions of s where a maximal run of characters other than line ends
\* begins
RunStarts(s) ==
    {i \in 1..Len(s) : ~IsLineEnd(s[i]) /\ (i = 1 \/ IsLineEnd(s[i - 1]))}

\* the last position of the run that begins at i
RunEnd(s, i) ==
    CHOOSE j \in i..Len(s) :
        /\ \A k \in i..j : ~IsLineEnd(s[k])
        /\ (j = Len(s) \/ IsLineEnd(s[j + 1]))

\* the non-empty pieces of s split at the line ends, in order
Pieces(s) ==
    LET starts == RunStarts(s)
        nth(k) == CHOOSE i \in starts : Cardinality({j \in starts : j < i}) = k - 1
    IN  [k \in 1..Cardinality(starts) |-> SubSeq(s, nth(k), RunEnd(s, nth(k)))]

\* the piece still being accumulated, if any
Pending ==
    IF pc \in {"read", "delay"} /\ serialBuffer # <<>> THEN <<serialBuffer>> ELSE <<>>

\* this step hands a line to processCommand
Dispatching ==
    /\ pc = "read"
    /\ rx # <<>>
    /\ rx' = Tail(rx)
    /\ IsLineEnd(Head(rx))
    /\ serialBuffer # <<>>

\* this step hands the command cmd (the trimmed line) to processCommand
DispatchingCmd(cmd) == Dispatching /\ lastCmd' = cmd

\* this step is the TCP poll of a pass of loop()
Polling == pc = "read" /\ pc' = "delay"

\* line is an ERROR:<reason> line
IsErrorLine(line) ==
    /\ line # <<>>
    /\ line[1] \in {"ERROR:Invalid CONNECT format. Use CONNECT:SSID:PASSWORD",
                    "ERROR:Invalid TCPCONNECT format",
                    "ERROR:Not connected",
                    "ERROR:No active TCP connection",
                    "ERROR:Not connected to WiFi",
                    "ERROR:Unknown command: ",
                    "ERROR:Connection failed",
                    "ERROR:TCP connection failed"}

\* the positions of s that hold no blank
NonBlank(s) == {i \in 1..Len(s) : s[i] \notin {" ", "\t"}}

\* s without its leading and trailing blanks
Stripped(s) ==
    IF NonBlank(s) = {} THEN <<>>
    ELSE SubSeq(s, CHOOSE i \in NonBlank(s) : \A j \in NonBlank(s) : i <= j,
                   CHOOSE i \in NonBlank(s) : \A j \in NonBlank(s) : i >= j)

\* s begins with the text p
HasPrefix(s, p) == Len(s) >= Len(p) /\ \A i \in 1..Len(p) : s[i] = p[i]

\* what follows the first n characters of s
After(s, n) == SubSeq(s, n + 1, Len(s))

\* the positions of the colons of s
Colons(s) == {i \in 1..Len(s) : s[i] = ":"}

\* the position of the last colon of s
LastColon(s) == CHOOSE i \in Colons(s) : \A j \in Colons(s) : i >= j

\* s is a number: one decimal digit or more and nothing else
IsNumber(s) == s # <<>> /\ \A i \in 1..Len(s) : \E d \in 0..9 : s[i] = DigitChars[d + 1]

\* the value of the number s
RECURSIVE Decimal(_)
Decimal(s) ==
    IF s = <<>> THEN 0
    ELSE 10 * Decimal(SubSeq(s, 1, Len(s) - 1))
           + (CHOOSE d \in 0..9 : s[Len(s)] = DigitChars[d + 1])

\* the host of the line TCPCONNECT:<host>:<port>, split at the last colon
HostOf(t) == SubSeq(t, Len(P_TCPCONNECT) + 1, LastColon(t) - 1)

\* the port field of that line
PortFieldOf(t) == After(t, LastColon(t))

\* the trimmed line t is one of the verb forms of the command protocol
Recognized(t) ==
    \/ t \in {W_STATUS, W_SCAN, W_DISCONNECT, W_IP, W_TCPCLOSE}
    \/ HasPrefix(t, P_CONNECT)
    \/ HasPrefix(t, P_TCPCONNECT)
    \/ HasPrefix(t, P_TCPSEND)

\* the trimmed text of the line this step hands to processCommand
Line == Stripped(serialBuffer)

\* this step hands to processCommand a TCPCONNECT line with a colon after a
\* non-empty host
DispatchingTcpConnect ==
    Dispatching /\ HasPrefix(Line, P_TCPCONNECT) /\ HostOf(Line) # <<>>

HasErrorLine(lines) == \E i \in 1..Len(lines) : IsErrorLine(lines[i])

----------------------------------------------------------------------------
(* C1 *)

\* C1: whatever bytes have been read from the link, one at a time and spread
\* over any passes of loop(), the lines handed to processCommand so far,
\* followed by the line still being accumulated, are exactly the non-empty
\* pieces of the whole byte stream split at '\n' and '\r': same order, each
\* once, none lost, no empty line (CR LF gives one command).
C1_LinesAreThePieces == trace => Pieces(fed) = dispatched \o Pending

\* two lines have been dispatched, the first of them ended by CR LF
C1_Witness ==
    /\ Len(dispatched) = 2
    /\ \E i \in 1..(Len(fed) - 1) :
          /\ fed[i] = "\r"
          /\ fed[i + 1] = "\n"
          /\ i > 1
          /\ ~IsLineEnd(fed[i - 1])
          /\ i + 2 <= Len(fed)
          /\ ~IsLineEnd(fed[i + 2])

----------------------------------------------------------------------------
(* C10 *)

\* C10: in every reachable state the line buffer holds at most LineCap
\* characters (a longer unterminated line is discarded as a BufferOverflow).
C10_BufferCapped == Len(serialBuffer) <= LineCap

----------------------------------------------------------------------------
(* C2 *)

OkClosed == << <<"OK:TCP connection closed">> >>
ErrNoConnection == << <<"ERROR:No active TCP connection">> >>

\* a TCPCLOSE handled with a session established answers OK, one handled
\* with none answers ERROR, and in both cases no session is left
TcpCloseAnswers ==
    DispatchingCmd(W_TCPCLOSE) =>
        /\ resp' = IF tcpConnected THEN OkClosed ELSE ErrNoConnection
        /\ ~tcpConnected'

\* entry i of the history is the first TCPCLOSE after a TCPCONNECT that was
\* answered OK:TCP connected
FirstCloseAfterConnect(i) ==
    /\ log[i].cmd = W_TCPCLOSE
    /\ \E j \in 1..(i - 1) :
          /\ StartsWith(log[j].cmd, P_TCPCONNECT)
          /\ log[j].resp[Len(log[j].resp)] = <<"OK:TCP connected">>
          /\ \A k \in (j + 1)..(i - 1) :
                ~StartsWith(log[k].cmd, P_TCPCONNECT) /\ log[k].cmd # W_TCPCLOSE

\* C2 as stated: TCPCLOSE with a session established answers OK, with none
\* answers ERROR, and leaves none; hence the first two TCPCLOSE after a
\* successful TCPCONNECT, one right after the other, answer OK then ERROR
C2_AsStated ==
    /\ [][TcpCloseAnswers]_vars
    /\ [](\A i \in 1..(Len(log) - 1) :
            (FirstCloseAfterConnect(i) /\ log[i + 1].cmd = W_TCPCLOSE) =>
                (log[i].resp = OkClosed /\ log[i + 1].resp = ErrNoConnection))

\* C2: TCPCLOSE handled while a TCP session is established replies exactly
\* OK:TCP connection closed, TCPCLOSE handled while none is established replies
\* exactly ERROR:No active TCP connection, and both leave no session.  Hence
\* two TCPCLOSE in a row after a successful TCPCONNECT reply OK then ERROR when
\* the session is still established as the first one is handled; when the peer
\* has closed it by then, both reply ERROR.
C2_TcpClose ==
    /\ [][TcpCloseAnswers]_vars
    /\ [](\A i \in 1..(Len(log) - 1) :
            (FirstCloseAfterConnect(i) /\ log[i + 1].cmd = W_TCPCLOSE) =>
                /\ log[i].resp = (IF log[i].est THEN OkClosed ELSE ErrNoConnection)
                /\ log[i + 1].resp = ErrNoConnection)

\* a successful TCPCONNECT, then TCPCLOSE answered OK, then TCPCLOSE answered
\* ERROR
C2_Witness ==
    /\ Len(log) = 3
    /\ log[1].resp[Len(log[1].resp)] = <<"OK:TCP connected">>
    /\ log[2] = [cmd |-> W_TCPCLOSE, resp |-> OkClosed, est |-> TRUE]
    /\ log[3] = [cmd |-> W_TCPCLOSE, resp |-> ErrNoConnection, est |-> FALSE]

----------------------------------------------------------------------------
(* C3 *)

\* C3: TCPSEND:<payload> handled when no TCP session is established prints
\* exactly one line, ERROR:Not connected, hands nothing to the provider and
\* leaves the association and the TCP session as they were.
C3_SendWithoutSession ==
    [][(Dispatching /\ StartsWith(lastCmd', P_TCPSEND) /\ ~tcpConnected) =>
          /\ resp' = << <<"ERROR:Not connected">> >>
          /\ provider' = "none"
          /\ UNCHANGED <<wifiVars, tcpVars>>]_vars

\* TCPSEND:d has been refused, the socket of a session the peer closed still
\* being held
C3_Witness ==
    /\ lastCmd = LnTcpSend
    /\ resp = << <<"ERROR:Not connected">> >>
    /\ ~tcpConnected
    /\ tcpPeer # <<>>
    /\ pc = "read"

----------------------------------------------------------------------------
(* C4 *)

\* C4: in every pass of loop() the poll prints no TCPDATA: line when no TCP
\* session is established, and at most one however many packets were buffered.
C4_PollOncePerTick ==
    /\ [](Len(tickData) <= 1)
    /\ [][(tickData' # tickData /\ tickData' # <<>>) => (Polling /\ tcpConnected)]_vars

\* two packets were buffered and the poll of this pass has printed one line
C4_Witness ==
    /\ pc = "delay"
    /\ tickData = << <<"TCPDATA:", "x", "y", "z">> >>

----------------------------------------------------------------------------
(* C5 *)

\* C5: a poll that finds the session established and at least one byte
\* buffered prints, in the same pass, one TCPDATA: line holding all the bytes
\* buffered at that moment in arrival order, and leaves nothing buffered.
C5_PollDrainsAll ==
    [][(Polling /\ tcpConnected /\ Len(Flatten(tcpIn)) > 0) =>
          /\ tickData' = << <<"TCPDATA:">> \o Flatten(tcpIn) >>
          /\ tcpIn' = <<>>]_vars

\* the packets "yz" and "x", in this order, have been delivered in one line
C5_Witness ==
    /\ pc = "delay"
    /\ tickData = << <<"TCPDATA:", "y", "z", "x">> >>
    /\ tcpIn = <<>>
    /\ tcpConnected

----------------------------------------------------------------------------
(* C6 *)

\* the session that is established is the one the command cmd asks for
SessionIsTo(cmd) ==
    /\ tcpPeer' # <<>>
    /\ cmd = P_TCPCONNECT \o tcpPeer'[1].host \o <<":">> \o IntToChars(tcpPeer'[1].port)

\* C6: at most one TCP session is established at any instant, and a
\* TCPCONNECT handled while one is established supersedes it: after the
\* command the earlier session is released, so a session established then is
\* the one just made to the new host and port; the response has the two
\* usual lines and no warning.
C6_Supersedes ==
    /\ [](Len(tcpPeer) <= 1)
    /\ [][(Dispatching /\ provider' \in {"tcp connected", "tcp failed"} /\ tcpConnected) =>
             /\ tcpConnected' => (provider' = "tcp connected" /\ SessionIsTo(lastCmd'))
             /\ Len(resp') = 2
             /\ resp'[1][1] = "TCP:Connecting to "
             /\ resp'[2] \in {<<"OK:TCP connected">>, <<"ERROR:TCP connection failed">>}]_vars

----------------------------------------------------------------------------
(* C7 *)

\* n progress dots
Dots(n) == [i \in 1..n |-> "."]

\* the first line of the response to the CONNECT being handled
ConnectingLine == <<"CONNECTING:">> \o wifiReq[1].ssid

\* the response of a CONNECT, while it is polling and once it has returned
ConnectResponseShape ==
    /\ pc = "wifiwait" =>
          /\ attempts <= 20
          /\ curLine = Dots(attempts)
          /\ resp = <<ConnectingLine>>
    /\ pc = "wififinal" =>
          /\ attempts <= 20
          /\ resp = <<ConnectingLine, Dots(attempts)>>
    /\ (pc \in {"read", "delay"} /\ provider = "begin") =>
          /\ attempts <= 20
          /\ \/ resp = <<ConnectingLine, Dots(attempts), <<"OK:Connected">>, <<"IP:", "<ip>">> >>
             \/ resp = <<ConnectingLine, Dots(attempts), <<"ERROR:Connection failed">> >>

\* C7: handling a CONNECT always terminates, whatever the provider reports:
\* it prints CONNECTING:<ssid>, goes at most 20 times through the polling loop
\* with one dot each time, then prints exactly one outcome, OK:Connected with
\* IP:<addr>, or ERROR:Connection failed.
C7_ConnectTerminates ==
    /\ []ConnectResponseShape
    /\ (pc = "wifiwait") ~> (pc = "read" /\ provider = "begin")

\* a CONNECT has given up after 20 dots
C7_Witness ==
    /\ pc = "read"
    /\ lastCmd = LnConnect
    /\ resp = << <<"CONNECTING:", "s">>, Dots(20), <<"ERROR:Connection failed">> >>

----------------------------------------------------------------------------
(* C8 *)

\* no command is running and no byte is waiting
Idle == rx = <<>> /\ serialBuffer = <<>> /\ pc \in {"read", "delay"}

\* loop() can take its next step
LoopCanStep == ENABLED LoopStep

\* C8: every error is recovered locally: in every reachable state loop() can
\* go on, every line handed to processCommand gets a non-empty response, every
\* command returns to loop(), and every byte written by the host is read and
\* its command handled.
C8_AlwaysRecovers ==
    /\ []LoopCanStep
    /\ [][Dispatching => resp' # <<>>]_vars
    /\ (~Idle) ~> Idle

\* a CONNECT has failed at the provider, loop() is reading again and the next
\* line, an unknown command, is waiting
C8_Witness ==
    /\ pc = "read"
    /\ lastCmd = LnConnect
    /\ Len(resp) = 3
    /\ resp[3] = <<"ERROR:Connection failed">>
    /\ serialBuffer = <<>>
    /\ rx = LnFoo \o <<"\n">>

----------------------------------------------------------------------------
(* C9 *)

\* C9: every operation that fails at the provider is reported by an ERROR:
\* line in the response of the command that made it: an association not
\* reached, a TCP connect refused, a scan that failed; a failed scan is not
\* answered with a SCAN:Found line.
C9_FailuresReported ==
    /\ [](provider = "tcp failed" => HasErrorLine(resp))
    /\ [][(pc = "wififinal" /\ pc' = "read" /\ wifiStatus # "WL_CONNECTED") =>
             HasErrorLine(resp')]_vars
    /\ [](provider = "scan failed" =>
            /\ HasErrorLine(resp)
            /\ \A i \in 1..Len(resp) : resp[i][1] # "SCAN:Found ")

----------------------------------------------------------------------------
(* C13 *)

\* OPEN or SECURED, as the claim classifies a network
Classified(net) == IF net.enc = "WIFI_AUTH_OPEN" THEN "OPEN" ELSE "SECURED"

\* the lines the claim expects of a scan that found nets
ExpectedScanLines(nets) ==
    IF Len(nets) = 0
    THEN << <<"SCANNING...">>, <<"SCAN:No networks found">> >>
    ELSE << <<"SCANNING...">>,
            <<"SCAN:Found ">> \o IntToChars(Len(nets)) \o <<" networks">> >>
         \o [i \in 1..Len(nets) |->
                <<"NETWORK:">> \o nets[i].ssid \o <<":">> \o IntToChars(nets[i].rssi)
                    \o <<":", Classified(nets[i])>>]

\* C13: a SCAN for which the provider reports zero networks prints exactly
\* SCANNING... and SCAN:No networks found; one for which it reports N > 0
\* networks prints SCANNING..., SCAN:Found N networks and then exactly N
\* NETWORK:<ssid>:<rssi>:<OPEN|SECURED> lines in the provider's order, OPEN
\* exactly for the open type and SECURED for every other type.
C13_ScanLines ==
    (provider = "scan done") =>
        /\ lastCmd = W_SCAN
        /\ resp = ExpectedScanLines(scanResult)
        /\ Len(resp) = (IF scanResult = <<>> THEN 2 ELSE Len(scanResult) + 2)

\* a scan has reported the secured network b before the open network a
C13_Witness ==
    /\ provider = "scan done"
    /\ resp = << <<"SCANNING...">>,
                 <<"SCAN:Found ", "2", " networks">>,
                 <<"NETWORK:", "b", ":", "-", "7", "0", ":", "SECURED">>,
                 <<"NETWORK:", "a", ":", "-", "4", "0", ":", "OPEN">> >>

----------------------------------------------------------------------------
(* C11 *)

\* C11: in every reachable state the line buffer holds no CR and no LF, and
\* whenever loop() is about to read a byte right after a line end (the
\* command of that line, if any, has been handled) the buffer is empty.
C11_BufferClean ==
    /\ \A i \in 1..Len(serialBuffer) : ~IsLineEnd(serialBuffer[i])
    /\ (pc \in {"read", "delay"} /\ fed # <<>> /\ IsLineEnd(fed[Len(fed)])) =>
          serialBuffer = <<>>

\* a CONNECT whose line was ended by CR has returned and two lines have been
\* handled
C11_Witness ==
    /\ pc = "read"
    /\ provider = "begin"
    /\ Len(dispatched) = 2
    /\ fed[Len(fed)] = "\r"
    /\ serialBuffer = <<>>

----------------------------------------------------------------------------
(* C12 *)

\* C12: a line whose trimmed text is none of the verb forms is answered by
\* exactly one line, ERROR:Unknown command: and the trimmed text, and leaves
\* the association and the TCP session as they were; verbs are matched with
\* their case, and STATUS, SCAN, DISCONNECT, IP and TCPCLOSE only as the whole
\* trimmed line.
C12_UnknownCommand ==
    [][(Dispatching /\ ~Recognized(Line)) =>
          /\ resp' = << <<"ERROR:Unknown command: ">> \o Line >>
          /\ pc' = "read"
          /\ provider' = "none"
          /\ UNCHANGED <<wifiVars, tcpVars>>]_vars

\* STATUS:1 has been answered as an unknown command while a TCP session is
\* established, which is still there
C12_Witness ==
    /\ lastCmd = LnStatusArg
    /\ resp = << <<"ERROR:Unknown command: ", "S", "T", "A", "T", "U", "S", ":", "1">> >>
    /\ tcpConnected
    /\ Len(log) = 2

----------------------------------------------------------------------------
(* C14 *)

\* C14: a line CONNECT:<rest> is split at the first colon of <rest> only:
\* the ssid is what precedes it, the password all that follows it, further
\* colons included; when <rest> has no colon no association is attempted and
\* the one response line is ERROR:Invalid CONNECT format..., which is not the
\* unknown-command line.
C14_ConnectSplit ==
    [][(Dispatching /\ HasPrefix(Line, P_CONNECT)) =>
          LET rest == After(Line, Len(P_CONNECT))
              first == CHOOSE i \in Colons(rest) : \A j \in Colons(rest) : i <= j
          IN  IF Colons(rest) # {}
              THEN /\ wifiReq' = << [ssid |-> SubSeq(rest, 1, first - 1),
                                      password |-> After(rest, first)] >>
                   /\ provider' = "begin"
                   /\ resp' = << <<"CONNECTING:">> \o SubSeq(rest, 1, first - 1) >>
              ELSE /\ provider' = "none"
                   /\ UNCHANGED wifiVars
                   /\ resp' = << <<"ERROR:Invalid CONNECT format. Use CONNECT:SSID:PASSWORD">> >>
                   /\ resp'[1][1] # "ERROR:Unknown command: "]_vars

\* CONNECT:s:p:q has asked for the network s with the password p:q
C14_Witness ==
    /\ lastCmd = LnConnectColons
    /\ wifiReq = << [ssid |-> <<"s">>, password |-> <<"p", ":", "q">>] >>
    /\ pc = "wifiwait"

----------------------------------------------------------------------------
(* C15 *)

\* C15: a line TCPCONNECT:<rest> is split at the last colon of the line only:
\* the host is all that lies between the verb and that colon, inner colons
\* kept, and the port is the field after it; when no colon follows a non-empty
\* host, no connect is made and the one response line is
\* ERROR:Invalid TCPCONNECT format.
C15_TcpConnectSplit ==
    [][(Dispatching /\ HasPrefix(Line, P_TCPCONNECT)) =>
          LET host == HostOf(Line)
              field == PortFieldOf(Line)
          IN  IF host # <<>>
              THEN /\ provider' \in {"tcp connected", "tcp failed"}
                   /\ Len(resp') = 2
                   /\ HasPrefix(resp'[1], <<"TCP:Connecting to ">> \o host \o <<":">>)
                   /\ Colons(After(resp'[1], Len(host) + 2)) = {}
                   /\ provider' = "tcp connected" =>
                         /\ tcpPeer'[1].host = host
                         /\ IsNumber(field) => tcpPeer'[1].port = Decimal(field)
              ELSE /\ provider' = "none"
                   /\ resp' = << <<"ERROR:Invalid TCPCONNECT format">> >>
                   /\ UNCHANGED tcpVars]_vars

\* TCPCONNECT:a:b:80 has made a session to the host a:b at port 80
C15_Witness ==
    /\ lastCmd = LnTcpConnectInner
    /\ tcpConnected
    /\ tcpPeer = << [host |-> <<"a", ":", "b">>, port |-> 80] >>
    /\ resp = << <<"TCP:Connecting to ", "a", ":", "b", ":", "8", "0">>,
                 <<"OK:TCP connected">> >>

----------------------------------------------------------------------------
(* C16 *)

\* the port the claim expects of the port field
ExpectedPort(field) == IF IsNumber(field) THEN Decimal(field) ELSE 0

\* C16: for every TCPCONNECT line that passes the split, the port handed to
\* the provider is a non-negative integer, the value of the trailing field
\* when that is a number and 0 when it is not; the command is never refused
\* for its port and prints TCP:Connecting to <host>:<port> with that value.
C16_PortNonNegative ==
    [][DispatchingTcpConnect =>
          /\ provider' \in {"tcp connected", "tcp failed"}
          /\ ExpectedPort(PortFieldOf(Line)) >= 0
          /\ resp'[1] = <<"TCP:Connecting to ">> \o HostOf(Line) \o <<":">>
                           \o IntToChars(ExpectedPort(PortFieldOf(Line)))
          /\ provider' = "tcp connected" =>
                tcpPeer'[1].port = ExpectedPort(PortFieldOf(Line))]_vars

----------------------------------------------------------------------------
(* C18 *)

\* C18: TCPSEND:<payload> handled while a TCP session is established hands
\* the provider, once, exactly the text after the first TCPSEND: of the
\* trimmed line (further colons and inner blanks kept, the blanks around the
\* line removed), prints the one line OK:Data sent and leaves the session
\* established.
C18_PayloadVerbatim ==
    [][(Dispatching /\ HasPrefix(Line, P_TCPSEND) /\ tcpConnected) =>
          /\ tcpSent' = Append(tcpSent, After(Line, Len(P_TCPSEND)))
          /\ resp' = << <<"OK:Data sent">> >>
          /\ provider' = "tcp printed"
          /\ tcpConnected'
          /\ tcpPeer' = tcpPeer
          /\ tcpIn' = tcpIn]_vars

\* over one session the payloads "a:b c" and " d" have been handed over, the
\* second from the line " TCPSEND: d "
C18_Witness ==
    /\ tcpConnected
    /\ tcpSent = << <<"a", ":", "b", " ", "c">>, <<" ", "d">> >>
    /\ resp = << <<"OK:Data sent">> >>
    /\ dispatched[Len(dispatched)] = LnTcpSendPadded

----------------------------------------------------------------------------
(* C17 *)

\* a is an initial part of b
IsPrefix(a, b) == Len(a) <= Len(b) /\ SubSeq(b, 1, Len(a)) = a

\* a CONNECT is being handled
InConnect == pc \in {"wifiwait", "wififinal"}

\* the lines handed to processCommand have all been handled to their end, in
\* their order, but for the CONNECT that is polling; no TCPDATA: line is
\* printed in a pass of loop() before the command it is handling has ended
HandledInOrder ==
    /\ Len(log) = Len(dispatched) - (IF InConnect THEN 1 ELSE 0)
    /\ InConnect => tickData = <<>>

\* a command that ends is the one of the line handed to processCommand last
EndsTheLastLine ==
    log' # log =>
        /\ Len(log') = Len(dispatched')
        /\ SubSeq(log', 1, Len(log)) = log
        /\ log'[Len(log')].cmd = Stripped(dispatched'[Len(log')])

\* a step taken while a CONNECT is being handled reads no byte, starts no
\* command, prints no TCPDATA: line and only adds to the response
NothingBetween ==
    InConnect =>
        /\ fed' = fed
        /\ dispatched' = dispatched
        /\ lastCmd' = lastCmd
        /\ tickData' = tickData
        /\ IsPrefix(resp, resp')

\* the lines handed to processCommand up to this step are the first lines of
\* all the bytes the host has written, in the order of arrival
InArrivalOrder == Dispatching => IsPrefix(dispatched', Pieces(fed' \o rx'))

\* C17: commands are handled one at a time, to their end, in the order of
\* arrival, and the TCP poll runs once per pass of loop() after all the lines
\* ready in that pass have been handled: the response lines of a command are
\* contiguous, no TCPDATA: line and no line of another command among them,
\* and a command that arrives while a CONNECT is polling is handled only
\* after the outcome line of that CONNECT.
C17_OneAtATime ==
    /\ []HandledInOrder
    /\ [][/\ InArrivalOrder
          /\ EndsTheLastLine
          /\ NothingBetween
          /\ Polling => rx = <<>>
          /\ (tickData' # tickData /\ tickData' # <<>>) => Polling
          /\ Dispatching => (pc = "read" /\ Len(log) = Len(dispatched))]_vars

\* a CONNECT has polled 20 times while a packet of the TCP session and the
\* next command line were waiting
C17_Witness ==
    /\ pc = "wifiwait"
    /\ attempts = 20
    /\ tcpConnected
    /\ tcpIn # <<>>
    /\ rx = LnTcpConnectH \o <<"\n">>

----------------------------------------------------------------------------
(* C19 *)

\* the last command handled is a TCPCONNECT answered ERROR:TCP connection
\* failed
ConnectJustFailed == provider = "tcp failed"

\* C19: after a TCPCONNECT answered ERROR:TCP connection failed no TCP
\* session is established, also when one was established before it: the
\* next TCPSEND is answered ERROR:Not connected, the next TCPCLOSE
\* ERROR:No active TCP connection, and no TCPDATA: line is printed until a
\* later TCPCONNECT succeeds.
C19_FailedConnectLeavesNone ==
    /\ [](ConnectJustFailed => ~tcpConnected)
    /\ [][/\ (ConnectJustFailed /\ Dispatching /\ HasPrefix(Line, P_TCPSEND)) =>
                resp' = << <<"ERROR:Not connected">> >>
          /\ (ConnectJustFailed /\ DispatchingCmd(W_TCPCLOSE)) =>
                resp' = << <<"ERROR:No active TCP connection">> >>
          /\ (ConnectJustFailed /\ Polling) => tickData' = <<>>]_vars

----------------------------------------------------------------------------
(* C20 *)

\* this step prints the outcome of a CONNECT
PrintsOutcome == pc = "wififinal" /\ pc' = "read"

\* the outcome line this step prints
OutcomeLine == resp'[Len(resp) + 1]

\* C20: the outcome line of a CONNECT agrees with the polling before it:
\* OK:Connected is printed only after fewer than 20 dots (the loop ended on
\* a connected status) and ERROR:Connection failed only after all 20 dots; a
\* change of status between the last poll and the final query yields neither
\* ERROR:Connection failed after fewer than 20 dots nor OK:Connected after 20.
C20_OutcomeAgrees ==
    [][PrintsOutcome =>
          /\ OutcomeLine = <<"OK:Connected">> => attempts < MaxAttempts
          /\ OutcomeLine = <<"ERROR:Connection failed">> => attempts = MaxAttempts]_vars

====
